---- MODULE Spec2Model ----
(***************************************************************************)
(* Resilience layer of CF-Weather-API: the circuit breaker                 *)
(* (utils/circuit_breaker.py), the tiered cache store and the sliding      *)
(* window limiter (utils/cache_strategies.py).                             *)
(*                                                                         *)
(* All coroutines run on one asyncio event loop, so a step of the model is *)
(* the code a coroutine runs between two suspension points.  The bodies of *)
(* the breaker's `async with self._lock` sections never suspend (the lock  *)
(* is free whenever a coroutine reaches it), so each is one step.          *)
(***************************************************************************)
EXTENDS Integers, Sequences, FiniteSets, TLC

(***************************************************************************)
(* Bounds of the model.                                                    *)
(***************************************************************************)
NumCallers == 2
NumLimTasks == 2
MaxWindow == 3
MaxOperations == 2
MaxLimCalls == 3
MaxRetryCalls == 6
RetryWindow == 3
NumCacheTasks == 1
NumRequests == 1
MaxRequests == 4
MaxNearby == 4
MaxPending == 3
MaxCacheTime == 300
MaxThreshold == 2
RecoveryTimeout == 1
MaxTime == 5
MaxSuccesses == 1

Callers == 1..NumCallers
LimTasks == 1..NumLimTasks
Times == 0..MaxTime
Requests == 1..NumRequests
CacheTasks == 1..NumCacheTasks

(***************************************************************************)
(* class CircuitState(Enum)                                                *)
(***************************************************************************)
CLOSED == "CLOSED"
OPEN == "OPEN"
HALF_OPEN == "HALF_OPEN"
CircuitState == {CLOSED, OPEN, HALF_OPEN}

\* Optional[float] = None for last_failure_time; times are naturals.
None == -1

\* await asyncio.sleep(5) of the monitor task
MonitorSleep == 5

(***************************************************************************)
(* Exceptions.  NoExc is "no exception"; Bases(e) are the classes e is an  *)
(* instance of.  asyncio.CancelledError derives from BaseException only.   *)
(***************************************************************************)
NoExc == "NoExc"

Bases(e) ==
  CASE e = "ConnectionError" -> {"ConnectionError", "OSError", "Exception", "BaseException"}
    [] e = "TimeoutError" -> {"TimeoutError", "OSError", "Exception", "BaseException"}
    [] e = "ValueError" -> {"ValueError", "Exception", "BaseException"}
    [] e = "CancelledError" -> {"CancelledError", "BaseException"}
    [] e = "ValidationError" -> {"ValidationError", "ValueError", "Exception", "BaseException"}
    [] e = "BadGzipFile" -> {"BadGzipFile", "OSError", "Exception", "BaseException"}
    [] OTHER -> {e, "Exception", "BaseException"}

isinstance(e, classes) == e # NoExc /\ (Bases(e) \cap classes) # {}

\* Outcomes of a guarded operation in the breaker specification.
OperationOutcomes == {NoExc, "ConnectionError", "ValueError", "CancelledError"}

\* expected_exceptions of the constructed breakers: the default (Exception,)
\* and the cache breaker's (ConnectionError, TimeoutError).
ExpectedChoices == {{"Exception"}, {"ConnectionError", "TimeoutError"}}

VARIABLES
  failure_threshold,    \* self.failure_threshold
  recovery_timeout,     \* self.recovery_timeout
  expected_exceptions,  \* self.expected_exceptions
  cb,                   \* the breaker object: state, stats, _monitor_task
  now,                  \* time.time()
  calls,                \* per caller: "idle", or how its call in flight was admitted
  last_op               \* the breaker entry point run by the latest step:
                        \* <<"__aenter__", raised>>, <<"__aexit__", exc_val>>,
                        \* or NoOp after any other step

\* the sliding-window limiter (CacheStrategy.sliding_window_cache), one key
VARIABLES
  window_size,          \* window_size
  max_operations,       \* max_operations
  zset,                 \* the key's sorted set: its members' scores
  expire_at,            \* when the key's own expiry falls due (None: no expiry)
  lim,                  \* per limiter task: its position and its captured `now`
  attempts,             \* history: calls made, per timestamp
  admitted,             \* history: calls whose operation() was invoked, per timestamp
  lim_last              \* the limiter call completed by the latest step, or NoOp

\* the cache store (CacheStrategy.get_cached_weather / set_cached_weather)
VARIABLES
  store,                \* the key-value store: key -> <<bytes, expiry time>> or <<>>
  ctask,                \* per cache task: its position in get / set
  acked,                \* history: the payload write acknowledged last, at this instant
  cache_last            \* the get / set completed by the latest step, or NoCacheOp

cvars == <<store, ctask, acked, cache_last>>

\* the warmer (CacheStrategy.warm_cache_for_popular_locations)
VARIABLES
  warm,                 \* the warm call in flight: its position and its subject
  wtasks,               \* the detached population tasks not yet finished
  warm_last             \* the warm call or population task ended by the latest
                        \* step, or NoOp

\* the request path (api.routes.weather.get_weather)
VARIABLES
  req,                  \* per request task: its position in the handler
  history               \* history: the requests answered so far, in order

wvars == <<warm, wtasks, warm_last>>
rvars == <<req, history>>
xvars == <<wvars, rvars>>

bconf == <<failure_threshold, recovery_timeout, expected_exceptions>>
bvars == <<failure_threshold, recovery_timeout, expected_exceptions, cb,
           calls, last_op>>
lvars == <<window_size, max_operations, zset, expire_at, lim, attempts,
           admitted, lim_last>>

vars == <<bvars, now, lvars, cvars, xvars>>

(***************************************************************************)
(* CircuitBreakerStats() and CircuitBreaker.__init__.  `edge` is a history *)
(* field: the source and target of the latest assignment to self.state.    *)
(* `wake_at` is the time the monitor's pending sleep ends.                 *)
(***************************************************************************)
NoEdge == <<>>
NoOp == <<"none">>

CircuitBreakerStats ==
  [failures |-> 0, successes |-> 0, last_failure_time |-> None, state_changes |-> 0]

CircuitBreaker ==
  [state |-> CLOSED,
   failures |-> CircuitBreakerStats.failures,
   successes |-> CircuitBreakerStats.successes,
   last_failure_time |-> CircuitBreakerStats.last_failure_time,
   state_changes |-> CircuitBreakerStats.state_changes,
   _monitor_task |-> "None",
   wake_at |-> 0,
   edge |-> NoEdge]

\* (self.stats.last_failure_time or 0)
OrZero(t) == IF t = None \/ t = 0 THEN 0 ELSE t

\* current_time - (self.stats.last_failure_time or 0) > self.recovery_timeout
RecoveryElapsed(self, t, timeout) == t - OrZero(self.last_failure_time) > timeout

\* asyncio.Task.cancel(): a finished task is left alone; any other is cancelled
\* the next time the loop runs it.
cancel(task) == IF task = "done" THEN "done" ELSE "cancelling"

_open(self) ==
  LET s == [self EXCEPT !.state = OPEN,
                        !.state_changes = @ + 1,
                        !.edge = <<self.state, OPEN>>]
  IN IF s._monitor_task = "None" \/ s._monitor_task = "done"
       THEN [s EXCEPT !._monitor_task = "pending"]
       ELSE s

_half_open(self) ==
  [self EXCEPT !.state = HALF_OPEN,
               !.state_changes = @ + 1,
               !.edge = <<self.state, HALF_OPEN>>]

\* Mutant of _close: the stats object is not replaced.
Mutant_close_keeps_stats(self) ==
  LET s == [self EXCEPT !.state = CLOSED,
                        !.state_changes = @ + 1,
                        !.edge = <<self.state, CLOSED>>]
  IN IF s._monitor_task # "None"
       THEN [s EXCEPT !._monitor_task = cancel(@)]
       ELSE s

_close(self) ==
  LET s == [self EXCEPT !.state = CLOSED,
                        !.failures = CircuitBreakerStats.failures,
                        !.successes = CircuitBreakerStats.successes,
                        !.last_failure_time = CircuitBreakerStats.last_failure_time,
                        !.state_changes = CircuitBreakerStats.state_changes + 1,
                        !.edge = <<self.state, CLOSED>>]
  IN IF s._monitor_task # "None"
       THEN [s EXCEPT !._monitor_task = cancel(@)]
       ELSE s

\* The result of _check_state: the breaker afterwards and what was raised.
_check_state(self, t, timeout) ==
  IF self.state = OPEN
    THEN IF RecoveryElapsed(self, t, timeout)
           THEN [self |-> _half_open(self), raised |-> NoExc]
           ELSE [self |-> self, raised |-> "CircuitBreakerError:OPEN"]
    ELSE IF self.state = HALF_OPEN
           THEN [self |-> self, raised |-> "CircuitBreakerError:HALF-OPEN"]
           ELSE [self |-> self, raised |-> NoExc]

\* Mutant of _record_failure: the threshold test is > instead of >=.
Mutant_record_failure_gt(self, t, threshold) ==
  LET s == [self EXCEPT !.failures = @ + 1, !.last_failure_time = t]
  IN IF s.state = CLOSED /\ s.failures > threshold
       THEN _open(s)
       ELSE IF s.state = HALF_OPEN THEN _open(s) ELSE s

_record_failure(self, t, threshold) ==
  LET s == [self EXCEPT !.failures = @ + 1, !.last_failure_time = t]
  IN IF s.state = CLOSED /\ s.failures >= threshold
       THEN _open(s)
       ELSE IF s.state = HALF_OPEN THEN _open(s) ELSE s

\* Mutant of _record_success: a success clears the failure count.
Mutant_record_success_resets(self) ==
  LET s == IF self.state = HALF_OPEN THEN _close(self) ELSE self
  IN [s EXCEPT !.successes = @ + 1, !.failures = 0]

_record_success(self) ==
  LET s == IF self.state = HALF_OPEN THEN _close(self) ELSE self
  IN [s EXCEPT !.successes = @ + 1]

\* Mutant of __aexit__: every exception is recorded as a failure.
Mutant_aexit_counts_all(self, exc_val, t, threshold, expected) ==
  IF exc_val # NoExc
    THEN _record_failure(self, t, threshold)
    ELSE _record_success(self)

__aexit__(self, exc_val, t, threshold, expected) ==
  IF exc_val # NoExc /\ isinstance(exc_val, expected)
    THEN _record_failure(self, t, threshold)
    ELSE IF exc_val = NoExc THEN _record_success(self) ELSE self

\* One pass of _monitor_circuit after its sleep: the locked check, then the
\* loop condition, which either starts the next sleep or ends the task.
_monitor_circuit(self, t, timeout) ==
  LET s == IF RecoveryElapsed(self, t, timeout) THEN _half_open(self) ELSE self
  IN IF s.state = OPEN
       THEN [s EXCEPT !._monitor_task = "sleeping", !.wake_at = t + MonitorSleep]
       ELSE [s EXCEPT !._monitor_task = "done", !.wake_at = 0]

(***************************************************************************)
(* The breaker specification: callers using `async with breaker`.          *)
(***************************************************************************)
(***************************************************************************)
(* The cache store: constants, keys, payloads and conversions.             *)
(***************************************************************************)
\* cache_circuit_breaker = CircuitBreaker(name="redis_cache", ...)
CacheFailureThreshold == 3
CacheRecoveryTimeout == 30
CacheExpected == {"ConnectionError", "TimeoutError"}

\* ttl: int = 3600, and max(300, ...)
BaseTtl == 3600
MinimumTtl == 300

\* class CacheKeys: its prefixes and the classmethods it defines
WEATHER_PREFIX == "weather:"
LOCATION_PREFIX == "location:"
CacheKeysMethods == {"weather_key", "forecast_key"}

Locations == {"London"}

\* str.lower()
lower(location) == IF location = "London" THEN "london" ELSE location

Subjects == {lower(l) : l \in Locations}

\* f"{cls.WEATHER_PREFIX}{location.lower()}"
weather_key(location) == <<WEATHER_PREFIX, lower(location)>>

\* CacheKeys.weather_key(location) + ":compressed"
compressed_key(location) == weather_key(location) \o <<":compressed">>

\* CacheKeys.location_key(location.lower()): an attribute lookup on the class
location_key(location) ==
  IF "location_key" \in CacheKeysMethods
    THEN [raised |-> NoExc, key |-> <<LOCATION_PREFIX, lower(location)>>]
    ELSE [raised |-> "AttributeError", key |-> <<>>]

Keys ==
  UNION {{weather_key(l), compressed_key(l), <<LOCATION_PREFIX, lower(l)>>} : l \in Locations}

(***************************************************************************)
(* A payload is <<type, content>>.  Contents: "w1", "w2" are weather       *)
(* records that fit the WeatherResponse schema ("w1" observed 1200 s ago,  *)
(* "w2" 3400 s ago);                                                       *)
(* "placeholder" is the warmer's {"location": ..., "temp": 20.5}, which    *)
(* does not; "badts" carries a current.timestamp that fromisoformat        *)
(* refuses; "bytes" holds a bytes value, which json.dumps refuses.         *)
(***************************************************************************)
Payloads ==
  {<<"WeatherResponse", "w1">>, <<"dict", "w2">>, <<"dict", "placeholder">>,
   <<"dict", "badts">>, <<"dict", "bytes">>}

SchemaOk(content) == content \in {"w1", "w2"}
Timestamp(content) ==
  CASE content \in {"w1", "w2"} -> "iso"
    [] content = "badts" -> "malformed"
    [] OTHER -> "absent"
Age(content) ==
  CASE content = "w2" -> 3400
    [] content = "w1" -> 1200
    [] OTHER -> 0

\* data.json() / json.dumps(data): the JSON text of the content
serialize(data) ==
  IF data[1] = "dict" /\ data[2] = "bytes"
    THEN [raised |-> "TypeError", text |-> <<>>]
    ELSE [raised |-> NoExc, text |-> <<"json", data[2]>>]

\* str.encode('utf-8'), gzip.compress, gzip.decompress, bytes.decode('utf-8')
encode(text) == <<"utf-8", text>>
gzip_compress(bytes) == <<"gzip", bytes>>
gzip_decompress(bytes) ==
  IF bytes[1] = "gzip"
    THEN [raised |-> NoExc, bytes |-> bytes[2]]
    ELSE [raised |-> "BadGzipFile", bytes |-> <<>>]
decode(bytes) ==
  IF bytes[1] = "utf-8"
    THEN [raised |-> NoExc, text |-> bytes[2]]
    ELSE [raised |-> "UnicodeDecodeError", text |-> <<>>]

\* WeatherResponse.parse_raw(text)
parse_raw(text) ==
  IF text[1] = "json" /\ SchemaOk(text[2])
    THEN [raised |-> NoExc, value |-> <<"WeatherResponse", text[2]>>]
    ELSE [raised |-> "ValidationError", value |-> <<>>]

\* lines 38-40: parse_raw(gzip.decompress(compressed_data).decode('utf-8'))
read_compressed(bytes) ==
  LET z == gzip_decompress(bytes)
      d == decode(z.bytes)
  IN IF z.raised # NoExc THEN [raised |-> z.raised, value |-> <<>>]
     ELSE IF d.raised # NoExc THEN [raised |-> d.raised, value |-> <<>>]
     ELSE parse_raw(d.text)

\* line 47: parse_raw(uncompressed_data.decode('utf-8'))
read_uncompressed(bytes) ==
  LET d == decode(bytes)
  IN IF d.raised # NoExc THEN [raised |-> d.raised, value |-> <<>>]
     ELSE parse_raw(d.text)

Max(a, b) == IF a >= b THEN a ELSE b
Min(a, b) == IF a <= b THEN a ELSE b

\* lines 73-77: the adaptive TTL
effective_ttl(data, ttl) ==
  IF data[1] = "dict" /\ Timestamp(data[2]) # "absent"
    THEN IF Timestamp(data[2]) = "malformed"
           THEN [raised |-> "ValueError", ttl |-> 0]
           ELSE [raised |-> NoExc, ttl |-> Max(MinimumTtl, ttl - Age(data[2]))]
    ELSE [raised |-> NoExc, ttl |-> ttl]

\* the store: GET replies None (Absent) for a key that is missing or expired
Absent == <<>>
NotRead == <<"not read">>
redis_get(st, key, t) ==
  IF st[key] = <<>> \/ t >= st[key][2] THEN Absent ELSE st[key][1]
setex(st, key, ttl, value, t) == [st EXCEPT ![key] = <<value, t + ttl>>]

\* a get that never takes the branch of an entry it has read
Mutant_Truthy_never(reply) == FALSE

\* `if compressed_data:` / `if uncompressed_data:`
Truthy(reply) == reply # Absent

\* replies of one store command: done, or the error it raised
StoreReplies == {"ok", "TimeoutError", "ResponseError"}

\* the class of what the breaker raised
ExcClass(raised) ==
  IF raised \in {"CircuitBreakerError:OPEN", "CircuitBreakerError:HALF-OPEN"}
    THEN "CircuitBreakerError" ELSE raised

\* get_cached_weather without its `except Exception` clause
Mutant_get_except_no_generic(exc) ==
  IF isinstance(exc, {"CircuitBreakerError"}) THEN <<"raise", "CacheMiss">>
  ELSE <<"raise", exc>>

\* get_cached_weather, lines 50-55: what reaches the caller for exception exc
get_except(exc) ==
  IF isinstance(exc, {"CircuitBreakerError"}) THEN <<"raise", "CacheMiss">>
  ELSE IF isinstance(exc, {"Exception"}) THEN <<"raise", "CacheMiss">>
  ELSE <<"raise", exc>>

\* set_cached_weather re-raising what it caught
Mutant_set_except_reraise(exc) == <<"raise", exc>>

\* set_cached_weather, lines 100-102
set_except(exc) ==
  IF isinstance(exc, {"Exception"}) THEN <<"return", FALSE>> ELSE <<"raise", exc>>

\* a task's frame; `fresh` (history) marks a get started right after an
\* acknowledged payload write of its subject, with no write or delay since
IdleTask ==
  [pc |-> "idle", location |-> "", data |-> <<>>, compress |-> FALSE, ttl |-> 0,
   value |-> <<>>, rc |-> NotRead, fresh |-> FALSE]

\* the record of a completed call; `written` is acked[subject] for a get
\* that stayed fresh, <<>> otherwise
NoCacheOp ==
  [op |-> "none", subject |-> "", rc |-> NotRead, ru |-> NotRead, cause |-> "",
   outcome |-> <<>>, written |-> <<>>, wrote_payload |-> FALSE,
   wrote_index |-> FALSE]

\* the cache before any call
CacheIdle ==
  /\ store = [k \in Keys |-> <<>>]
  /\ ctask = [t \in CacheTasks |-> IdleTask]
  /\ acked = [s \in Subjects |-> <<>>]
  /\ cache_last = NoCacheOp

\* no warm call, no population task, no request
ExtrasIdle ==
  /\ warm = [pc |-> "idle", primary |-> ""]
  /\ wtasks = <<>>
  /\ warm_last = NoOp
  /\ req = [r \in Requests |-> [pc |-> "idle", city |-> "", upstream |-> ""]]
  /\ history = <<>>

\* the limiter before any call: the key does not exist
LimIdle ==
  /\ zset = {}
  /\ expire_at = None
  /\ lim = [t \in LimTasks |-> [pc |-> "idle", ts |-> 0]]
  /\ attempts = [t \in Times |-> 0]
  /\ admitted = [t \in Times |-> 0]
  /\ lim_last = NoOp

Init ==
  /\ window_size = 1
  /\ max_operations = 1
  /\ LimIdle
  /\ CacheIdle
  /\ ExtrasIdle
  /\ failure_threshold \in 1..MaxThreshold
  /\ recovery_timeout = RecoveryTimeout
  /\ expected_exceptions \in ExpectedChoices
  /\ cb = CircuitBreaker
  /\ now = 0
  /\ calls = [c \in Callers |-> "idle"]
  /\ last_op = NoOp

\* __aenter__: admit() of caller c.
Admit(c) ==
  /\ calls[c] = "idle"
  /\ LET r == _check_state(cb, now, recovery_timeout)
     IN /\ cb' = r.self
        /\ last_op' = <<"__aenter__", r.raised>>
        /\ calls' = [calls EXCEPT ![c] =
                       IF r.raised # NoExc THEN "idle"
                       ELSE IF cb.state = OPEN THEN "probe" ELSE "closed"]
  /\ UNCHANGED <<bconf, now, lvars, cvars, xvars>>

\* the guarded body ends with outcome exc; __aexit__ records it.
Complete(c, exc) ==
  /\ calls[c] # "idle"
  /\ exc = NoExc => (cb.state = HALF_OPEN \/ cb.successes < MaxSuccesses)
  /\ cb' = __aexit__(cb, exc, now, failure_threshold, expected_exceptions)
  /\ calls' = [calls EXCEPT ![c] = "idle"]
  /\ last_op' = <<"__aexit__", exc>>
  /\ UNCHANGED <<bconf, now, lvars, cvars, xvars>>

\* the task made by asyncio.create_task(self._monitor_circuit()) runs first:
\* the loop condition, then the sleep.
MonitorStart ==
  /\ cb._monitor_task = "pending"
  /\ cb' = IF cb.state = OPEN
             THEN [cb EXCEPT !._monitor_task = "sleeping", !.wake_at = now + MonitorSleep]
             ELSE [cb EXCEPT !._monitor_task = "done", !.wake_at = 0]
  /\ last_op' = NoOp
  /\ UNCHANGED <<bconf, now, calls, lvars, cvars, xvars>>

MonitorWake ==
  /\ cb._monitor_task = "sleeping"
  /\ now >= cb.wake_at
  /\ cb' = _monitor_circuit(cb, now, recovery_timeout)
  /\ last_op' = NoOp
  /\ UNCHANGED <<bconf, now, calls, lvars, cvars, xvars>>

\* CancelledError is thrown into the monitor task.
MonitorCancelled ==
  /\ cb._monitor_task = "cancelling"
  /\ cb' = [cb EXCEPT !._monitor_task = "done", !.wake_at = 0]
  /\ last_op' = NoOp
  /\ UNCHANGED <<bconf, now, calls, lvars, cvars, xvars>>

Tick ==
  /\ now < MaxTime
  /\ now' = now + 1
  /\ last_op' = NoOp
  /\ UNCHANGED <<bconf, cb, calls, lvars, cvars, xvars>>

Next ==
  \/ \E c \in Callers : Admit(c)
  \/ \E c \in Callers, exc \in OperationOutcomes : Complete(c, exc)
  \/ MonitorStart
  \/ MonitorWake
  \/ MonitorCancelled
  \/ Tick

Spec == Init /\ [][Next]_vars

(***************************************************************************)
(* Claims about the breaker, checked under Spec.                           *)
(***************************************************************************)
Probes == {c \in Callers : calls[c] = "probe"}

LegalEdges ==
  {<<CLOSED, OPEN>>, <<OPEN, HALF_OPEN>>, <<HALF_OPEN, CLOSED>>, <<HALF_OPEN, OPEN>>}

\* C1: a CLOSED breaker has recorded fewer than failure_threshold failures
\* since its last reset (the N-th failure recorded while CLOSED opens it), and
\* every admit() made while OPEN with now - lastFailureTime <= recoveryTimeout
\* raises the "is OPEN" rejection, admits nothing and leaves the state OPEN.
C1_TripAndReject ==
  /\ [](cb.state = CLOSED => cb.failures < failure_threshold)
  /\ [][(/\ cb.state = OPEN
          /\ now - cb.last_failure_time <= recovery_timeout
          /\ last_op'[1] = "__aenter__")
        => (/\ last_op'[2] = "CircuitBreakerError:OPEN"
            /\ calls' = calls
            /\ cb'.state = OPEN)]_vars

\* C1 witness: the threshold was reached, the breaker is OPEN and an admit()
\* inside the recovery timeout has just been rejected.
C1_Witness ==
  /\ cb.state = OPEN
  /\ cb.failures >= failure_threshold
  /\ failure_threshold > 1
  /\ now > cb.last_failure_time
  /\ now - cb.last_failure_time <= recovery_timeout
  /\ last_op = <<"__aenter__", "CircuitBreakerError:OPEN">>

\* C2 (as claimed): the breaker leaves OPEN for HALF_OPEN only by admitting
\* one caller as the probe, and while that probe's outcome is unrecorded the
\* breaker stays HALF_OPEN (so every other admit() is rejected as busy).
C2_ExactlyOneProbe ==
  [][/\ (cb.state = OPEN /\ cb'.state = HALF_OPEN)
          => \E c \in Callers : calls[c] = "idle" /\ calls'[c] = "probe"
     /\ (\E c \in Callers : calls[c] = "probe" /\ calls'[c] = "probe")
          => (cb'.state = HALF_OPEN /\ Cardinality(Probes') = 1)]_vars

\* C3: in HALF_OPEN a recorded success closes the breaker with failure count
\* 0; a recorded qualifying failure opens it and stamps lastFailureTime with
\* the current time; while OPEN the stamp never moves back, and an admit()
\* lets a caller through only when more than recoveryTimeout has passed
\* since the stamp.
C3_ProbeOutcomes ==
  [][/\ (cb.state = HALF_OPEN /\ last_op' = <<"__aexit__", NoExc>>)
          => (cb'.state = CLOSED /\ cb'.failures = 0)
     /\ (/\ cb.state = HALF_OPEN
         /\ last_op'[1] = "__aexit__"
         /\ isinstance(last_op'[2], expected_exceptions))
          => (cb'.state = OPEN /\ cb'.last_failure_time = now)
     /\ (cb.state = OPEN /\ cb'.state = OPEN)
          => cb'.last_failure_time >= cb.last_failure_time
     /\ (cb.state = OPEN /\ last_op' = <<"__aenter__", NoExc>>)
          => now - cb.last_failure_time > recovery_timeout]_vars

\* C3 witness: a probe failed, the breaker re-opened with a fresh stamp and
\* an admit() made within the new recovery timeout was rejected.
C3_Witness ==
  /\ cb.edge = <<HALF_OPEN, OPEN>>
  /\ cb.state = OPEN
  /\ now > cb.last_failure_time
  /\ now - cb.last_failure_time <= recovery_timeout
  /\ last_op = <<"__aenter__", "CircuitBreakerError:OPEN">>

\* C4 (as claimed): every assignment to the state follows one of the four
\* legal edges.
C4_OnlyLegalEdges == cb.edge = NoEdge \/ cb.edge \in LegalEdges

(***************************************************************************)
(* The sliding-window limiter: CacheStrategy.sliding_window_cache.         *)
(* A call captures `now`, queues four commands on a transactional pipeline *)
(* and suspends in pipe.execute(); the store runs the batch as one unit.   *)
(***************************************************************************)
\* ZREMRANGEBYSCORE key lo hi: drops the members with lo <= score <= hi
zremrangebyscore(z, lo, hi) == {m \in z : ~(lo <= m /\ m <= hi)}

\* ZADD key {str(now): now}: one member per distinct timestamp
zadd(z, ts) == z \cup {ts}

\* the batch of lines 152-156: [zset, count, pruned] where count is ZCARD's
\* reply and pruned the set it counted
pipeline(z, ts, window) ==
  LET pruned == zremrangebyscore(z, 0, ts - window)
  IN [zset |-> zadd(pruned, ts), count |-> Cardinality(pruned), pruned |-> pruned]

\* lines 158-161: the decision taken on ZCARD's reply
RateLimitExceeded(count, max) == count > max

LimInit ==
  /\ window_size \in 1..MaxWindow
  /\ max_operations \in 1..MaxOperations
  /\ LimIdle
  /\ CacheIdle
  /\ ExtrasIdle
  /\ failure_threshold = 1
  /\ recovery_timeout = RecoveryTimeout
  /\ expected_exceptions = {"Exception"}
  /\ cb = CircuitBreaker
  /\ now = 0
  /\ calls = [c \in Callers |-> "idle"]
  /\ last_op = NoOp

AttemptsMade == LET S[t \in -1..MaxTime] == IF t = -1 THEN 0 ELSE S[t - 1] + attempts[t]
                IN S[MaxTime]

\* lines 147-156: capture now, queue the commands, suspend in execute()
LimStartWithin(t, bound) ==
  /\ lim[t].pc = "idle"
  /\ AttemptsMade < bound
  /\ lim' = [lim EXCEPT ![t] = [pc |-> "execute", ts |-> now]]
  /\ attempts' = [attempts EXCEPT ![now] = @ + 1]
  /\ lim_last' = NoOp
  /\ UNCHANGED <<bvars, now, cvars, window_size, max_operations, zset, expire_at,
                 admitted, xvars>>

LimStart(t) == LimStartWithin(t, MaxLimCalls)

\* the store runs the batch; lines 156-161 decide
LimExecute(t) ==
  /\ lim[t].pc = "execute"
  /\ LET r == pipeline(zset, lim[t].ts, window_size)
         rejected == RateLimitExceeded(r.count, max_operations)
     IN /\ zset' = r.zset
        /\ expire_at' = now + window_size
        /\ admitted' = IF rejected THEN admitted
                       ELSE [admitted EXCEPT ![lim[t].ts] = @ + 1]
        /\ lim_last' = <<"sliding_window_cache",
                         IF rejected THEN "Rate limit exceeded" ELSE "allowed",
                         r.pruned, r.count>>
  /\ lim' = [lim EXCEPT ![t] = [pc |-> "idle", ts |-> 0]]
  /\ UNCHANGED <<bvars, now, cvars, window_size, max_operations, attempts,
                 xvars>>

\* errors redis-py raises from pipe.execute() when the store cannot be reached
LimStoreErrors == {"ConnectionError", "TimeoutError"}

\* lines 162-164: `except Exception as e: logger.warning(...); raise` hands
\* the exception it caught on to the caller
sliding_window_except(exc) == exc

\* pipe.execute() raises: the batch was applied by the store (the reply was
\* lost) or was not applied at all; lines 162-164 log and re-raise
LimExecuteFails(t, exc, applied) ==
  /\ lim[t].pc = "execute"
  /\ LET r == pipeline(zset, lim[t].ts, window_size)
     IN /\ zset' = IF applied THEN r.zset ELSE zset
        /\ expire_at' = IF applied THEN now + window_size ELSE expire_at
        /\ lim_last' = <<"sliding_window_cache", sliding_window_except(exc),
                         IF applied THEN r.pruned ELSE zset, None>>
  /\ lim' = [lim EXCEPT ![t] = [pc |-> "idle", ts |-> 0]]
  /\ UNCHANGED <<bvars, now, cvars, window_size, max_operations, attempts,
                 admitted, xvars>>

\* EXPIRE key window_size falls due: the store deletes the key
LimExpire ==
  /\ expire_at # None
  /\ now >= expire_at
  /\ zset' = {}
  /\ expire_at' = None
  /\ lim_last' = NoOp
  /\ UNCHANGED <<bvars, now, cvars, window_size, max_operations, lim, attempts,
                 admitted, xvars>>

LimTick ==
  /\ now < MaxTime
  /\ now' = now + 1
  /\ lim_last' = NoOp
  /\ UNCHANGED <<bvars, cvars, window_size, max_operations, zset, expire_at, lim,
                 attempts, admitted, xvars>>

LimNext ==
  \/ \E t \in LimTasks : LimStart(t)
  \/ \E t \in LimTasks : LimExecute(t)
  \/ \E t \in LimTasks, exc \in LimStoreErrors, applied \in BOOLEAN :
       LimExecuteFails(t, exc, applied)
  \/ LimExpire
  \/ LimTick

LimSpec == LimInit /\ [][LimNext]_vars

(***************************************************************************)
(* Claims about the limiter, checked under LimSpec.                        *)
(***************************************************************************)
\* calls of the history h with a timestamp in the window (t - w, t]
InWindow(h, t, w) ==
  LET S[u \in -1..MaxTime] ==
        IF u = -1 THEN 0
        ELSE S[u - 1] + (IF t - w < u /\ u <= t THEN h[u] ELSE 0)
  IN S[MaxTime]

StampsUsed == {u \in Times : attempts[u] > 0}

\* C5 (as claimed): in every window of length window_size at most
\* max_operations calls were admitted, and when all calls made so far fall
\* inside one window and are at least max_operations in number, exactly
\* max_operations of them have been admitted once they have all completed.
C5_AtMostMaxPerWindow ==
  /\ \A t \in Times : InWindow(admitted, t, window_size) <= max_operations
  /\ (/\ \A t \in LimTasks : lim[t].pc = "idle"
      /\ AttemptsMade >= max_operations
      /\ \A u, v \in StampsUsed : v - u < window_size)
     => InWindow(admitted, MaxTime, MaxTime + 1) = max_operations

\* C6 (as claimed): after a rejected call the stored set is exactly the
\* pruned set that was counted.
C6_RejectedRecordsNothing ==
  (lim_last[1] = "sliding_window_cache" /\ lim_last[2] = "Rate limit exceeded")
  => zset = lim_last[3]

\* C18 (as stated): every completed limiter call ends in one of the
\* limiter's own outcomes, allowed or rate-limit-exceeded, also when the
\* batch execution against the store failed.
C18_StoreFailureContained ==
  lim_last[1] = "sliding_window_cache"
  => lim_last[2] \in {"allowed", "Rate limit exceeded"}

(***************************************************************************)
(* The cache specification: tasks calling get_cached_weather and           *)
(* set_cached_weather under cache_circuit_breaker.  A task suspends at     *)
(* each store command; the command is applied when its reply arrives.      *)
(* The breaker's success counter, which no code reads, is kept at most     *)
(* MaxSuccesses here.                                                      *)
(***************************************************************************)
CacheInit ==
  /\ failure_threshold = CacheFailureThreshold
  /\ recovery_timeout = CacheRecoveryTimeout
  /\ expected_exceptions = CacheExpected
  /\ cb = CircuitBreaker
  /\ now = 0
  /\ calls = [c \in Callers |-> "idle"]
  /\ last_op = NoOp
  /\ window_size = 1
  /\ max_operations = 1
  /\ LimIdle
  /\ CacheIdle
  /\ ExtrasIdle

\* `async with cache_circuit_breaker` is left with exception exc (or none)
CacheExit(exc) ==
  LET s == __aexit__(cb, exc, now, failure_threshold, expected_exceptions)
  IN [s EXCEPT !.successes = Min(@, MaxSuccesses)]

GetDone(task, rc, ru, cause, outcome) ==
  [NoCacheOp EXCEPT !.op = "get", !.subject = lower(task.location), !.rc = rc,
                    !.ru = ru, !.cause = cause, !.outcome = outcome,
                    !.written = IF task.fresh THEN acked[lower(task.location)]
                                ELSE <<>>]

SetDone(task, cause, outcome, wrote_payload, wrote_index) ==
  [NoCacheOp EXCEPT !.op = "set", !.subject = lower(task.location),
                    !.cause = cause, !.outcome = outcome,
                    !.wrote_payload = wrote_payload, !.wrote_index = wrote_index]

\* the gets in flight for a subject stop being fresh
Stale(tasks, subject) ==
  [u \in CacheTasks |->
     IF tasks[u].pc \in {"get_compressed", "get_uncompressed"}
        /\ lower(tasks[u].location) = subject
       THEN [tasks[u] EXCEPT !.fresh = FALSE]
       ELSE tasks[u]]

\* get_cached_weather, lines 31-36: enter the breaker, then await the read
\* of the compressed key
GetStart(t, location) ==
  /\ ctask[t].pc = "idle"
  /\ LET r == _check_state(cb, now, recovery_timeout)
         task == [IdleTask EXCEPT !.location = location,
                                  !.fresh = acked[lower(location)] # <<>>]
     IN /\ cb' = r.self
        /\ IF r.raised # NoExc
             THEN /\ ctask' = ctask
                  /\ cache_last' = GetDone(task, NotRead, NotRead, "rejected",
                                           get_except(ExcClass(r.raised)))
             ELSE /\ ctask' = [ctask EXCEPT ![t] = [task EXCEPT !.pc = "get_compressed"]]
                  /\ cache_last' = NoCacheOp
  /\ last_op' = NoOp
  /\ UNCHANGED <<bconf, calls, now, lvars, store, acked, xvars>>

\* lines 34-45: the compressed read returns
GetCompressedReply(t, reply) ==
  /\ ctask[t].pc = "get_compressed"
  /\ LET task == ctask[t]
         data == redis_get(store, compressed_key(task.location), now)
         r == read_compressed(data)
     IN IF reply # "ok"
          THEN /\ cb' = CacheExit(reply)
               /\ ctask' = [ctask EXCEPT ![t] = IdleTask]
               /\ cache_last' = GetDone(task, NotRead, NotRead, "read_error",
                                        get_except(reply))
          ELSE IF Truthy(data)
            THEN /\ cb' = CacheExit(r.raised)
                 /\ ctask' = [ctask EXCEPT ![t] = IdleTask]
                 /\ cache_last' =
                      IF r.raised = NoExc
                        THEN GetDone(task, data, NotRead, "hit", <<"return", r.value>>)
                        ELSE GetDone(task, data, NotRead, "decode_error",
                                     get_except(r.raised))
            ELSE /\ cb' = cb
                 /\ ctask' = [ctask EXCEPT ![t].pc = "get_uncompressed", ![t].rc = data]
                 /\ cache_last' = NoCacheOp
  /\ last_op' = NoOp
  /\ UNCHANGED <<bconf, calls, now, lvars, store, acked, xvars>>

\* lines 43-49: the uncompressed read returns
GetUncompressedReply(t, reply) ==
  /\ ctask[t].pc = "get_uncompressed"
  /\ LET task == ctask[t]
         data == redis_get(store, weather_key(task.location), now)
         r == read_uncompressed(data)
     IN IF reply # "ok"
          THEN /\ cb' = CacheExit(reply)
               /\ cache_last' = GetDone(task, task.rc, NotRead, "read_error",
                                        get_except(reply))
          ELSE IF Truthy(data)
            THEN /\ cb' = CacheExit(r.raised)
                 /\ cache_last' =
                      IF r.raised = NoExc
                        THEN GetDone(task, task.rc, data, "hit", <<"return", r.value>>)
                        ELSE GetDone(task, task.rc, data, "decode_error",
                                     get_except(r.raised))
            ELSE /\ cb' = CacheExit("CacheMiss")
                 /\ cache_last' = GetDone(task, task.rc, data, "absent",
                                          get_except("CacheMiss"))
  /\ ctask' = [ctask EXCEPT ![t] = IdleTask]
  /\ last_op' = NoOp
  /\ UNCHANGED <<bconf, calls, now, lvars, store, acked, xvars>>

\* set_cached_weather, lines 67-88: enter the breaker, serialize, compute
\* the TTL, then await the payload write
SetStart(t, location, data, compress) ==
  /\ ctask[t].pc = "idle"
  /\ LET r == _check_state(cb, now, recovery_timeout)
         j == serialize(data)
         e == effective_ttl(data, BaseTtl)
         task == [IdleTask EXCEPT !.location = location, !.data = data,
                                  !.compress = compress]
         exc == IF r.raised # NoExc THEN ExcClass(r.raised)
                ELSE IF j.raised # NoExc THEN j.raised
                ELSE e.raised
         cause == IF r.raised # NoExc THEN "rejected"
                  ELSE IF j.raised # NoExc THEN "serialize"
                  ELSE "ttl"
     IN IF exc # NoExc
          THEN /\ cb' = IF r.raised # NoExc THEN r.self
                        ELSE [__aexit__(r.self, exc, now, failure_threshold,
                                        expected_exceptions)
                                EXCEPT !.successes = Min(@, MaxSuccesses)]
               /\ ctask' = ctask
               /\ cache_last' = SetDone(task, cause, set_except(exc), FALSE, FALSE)
          ELSE /\ cb' = r.self
               /\ ctask' = [ctask EXCEPT ![t] =
                              [task EXCEPT !.pc = "set_payload",
                                           !.ttl = e.ttl,
                                           !.value = IF compress
                                                       THEN gzip_compress(encode(j.text))
                                                       ELSE encode(j.text)]]
               /\ cache_last' = NoCacheOp
  /\ last_op' = NoOp
  /\ UNCHANGED <<bconf, calls, now, lvars, store, acked, xvars>>

\* lines 79-99: a setex returns (the payload write, then the index write)
SetReply(t, reply) ==
  /\ ctask[t].pc \in {"set_payload", "set_index"}
  /\ LET task == ctask[t]
         subject == lower(task.location)
         key == IF task.compress THEN compressed_key(task.location)
                ELSE weather_key(task.location)
         k == location_key(lower(task.location))
     IN IF reply # "ok"
          THEN /\ cb' = CacheExit(reply)
               /\ store' = store
               /\ acked' = acked
               /\ ctask' = [ctask EXCEPT ![t] = IdleTask]
               /\ cache_last' =
                    SetDone(task, IF task.pc = "set_payload" THEN "payload_write"
                                  ELSE "index_write",
                            set_except(reply), task.pc = "set_index", FALSE)
          ELSE IF task.pc = "set_payload"
            THEN /\ store' = setex(store, key, task.ttl, task.value, now)
                 /\ acked' = [acked EXCEPT ![subject] = <<task.data, task.compress>>]
                 /\ IF k.raised # NoExc
                      THEN /\ cb' = CacheExit(k.raised)
                           /\ ctask' = [Stale(ctask, subject) EXCEPT ![t] = IdleTask]
                           /\ cache_last' = SetDone(task, "index_key",
                                                    set_except(k.raised), TRUE, FALSE)
                      ELSE /\ cb' = cb
                           /\ ctask' = [Stale(ctask, subject) EXCEPT ![t].pc = "set_index"]
                           /\ cache_last' = NoCacheOp
            ELSE /\ store' = setex(store, k.key, task.ttl * 2,
                                   <<"utf-8", <<"json", "index", weather_key(task.location)>>>>,
                                   now)
                 /\ acked' = acked
                 /\ cb' = CacheExit(NoExc)
                 /\ ctask' = [ctask EXCEPT ![t] = IdleTask]
                 /\ cache_last' = SetDone(task, "done", <<"return", TRUE>>, TRUE, TRUE)
  /\ last_op' = NoOp
  /\ UNCHANGED <<bconf, calls, now, lvars, xvars>>

\* time passes, long enough for the breaker's recovery and for the shortest
\* TTL; the store drops the entries whose expiry has passed
CacheTick(d) ==
  /\ now + d <= MaxCacheTime
  /\ now' = now + d
  /\ acked' = [s \in Subjects |-> <<>>]
  /\ ctask' = [u \in CacheTasks |-> [ctask[u] EXCEPT !.fresh = FALSE]]
  /\ cache_last' = NoCacheOp
  /\ last_op' = NoOp
  /\ store' = [k \in Keys |-> IF redis_get(store, k, now') = Absent THEN <<>> ELSE store[k]]
  /\ UNCHANGED <<bconf, cb, calls, lvars, xvars>>

CacheNext ==
  \/ \E t \in CacheTasks, l \in Locations : GetStart(t, l)
  \/ \E t \in CacheTasks, reply \in StoreReplies : GetCompressedReply(t, reply)
  \/ \E t \in CacheTasks, reply \in StoreReplies : GetUncompressedReply(t, reply)
  \/ \E t \in CacheTasks, l \in Locations, data \in Payloads, compress \in BOOLEAN :
       SetStart(t, l, data, compress)
  \/ \E t \in CacheTasks, reply \in StoreReplies : SetReply(t, reply)
  \/ \E d \in {MinimumTtl} : CacheTick(d)
  \/ MonitorStart
  \/ MonitorWake
  \/ MonitorCancelled

CacheSpec == CacheInit /\ [][CacheNext]_vars

(***************************************************************************)
(* Claims about the cache store, checked under CacheSpec.                  *)
(***************************************************************************)
Miss == <<"raise", "CacheMiss">>

\* a get has completed and both of the reads it made were answered
ReadsSucceeded ==
  cache_last.op = "get" /\ cache_last.cause \notin {"rejected", "read_error"}

\* C7: a get that starts right after the store acknowledged a payload write
\* for its subject, with no other write of the subject and no delay until the
\* get ends, and whose reads are answered, returns the content just written.
C7_RoundTrip ==
  (ReadsSucceeded /\ cache_last.written # <<>>)
    => /\ cache_last.outcome[1] = "return"
       /\ cache_last.outcome[2][2] = cache_last.written[1][2]

C9_HitOrMiss ==
  cache_last.op = "get"
    => /\ cache_last.outcome[1] = "return" \/ cache_last.outcome = Miss
       /\ cache_last.cause \in {"rejected", "read_error", "decode_error", "absent"}
            => cache_last.outcome = Miss
       /\ (cache_last.rc = Absent /\ cache_last.ru = Absent)
            => cache_last.outcome = Miss

\* a get read stored bytes that do not parse, and reported a miss
C9_Witness ==
  /\ cache_last.op = "get"
  /\ cache_last.cause = "decode_error"
  /\ cache_last.outcome = Miss

\* C10: a set always returns; it returns False when the breaker rejects it,
\* when serialization, the TTL computation, the payload write or the
\* location-index write fails; it returns True only after both writes.
C10_SetNeverRaises ==
  cache_last.op = "set"
    => /\ cache_last.outcome[1] = "return"
       /\ cache_last.cause \in {"rejected", "serialize", "ttl", "payload_write",
                                "index_key", "index_write"}
            => cache_last.outcome = <<"return", FALSE>>
       /\ cache_last.outcome = <<"return", TRUE>>
            => (cache_last.wrote_payload /\ cache_last.wrote_index)

\* a set whose payload write failed returned False
C10_Witness ==
  /\ cache_last.op = "set"
  /\ cache_last.cause = "payload_write"
  /\ ~cache_last.wrote_payload
  /\ cache_last.outcome = <<"return", FALSE>>

(***************************************************************************)
(* The decorator form, breaker(func): async_wrapped runs func inside       *)
(* `async with self` and inside its own try/except.  GuardSpec has callers *)
(* of both forms on one breaker.                                           *)
(***************************************************************************)
\* lines 75-83: what leaves the try/except when func ends with exc
async_wrapped(exc, expected) ==
  IF isinstance(exc, {"Exception"}) /\ isinstance(exc, expected)
    THEN "CircuitBreakerError"
    ELSE exc

\* func ends with outcome exc; __aexit__ sees what the try/except let out,
\* and so does the caller (__aexit__ returns None).
CompleteWrapped(c, exc) ==
  /\ calls[c] # "idle"
  /\ exc = NoExc => (cb.state = HALF_OPEN \/ cb.successes < MaxSuccesses)
  /\ LET out == async_wrapped(exc, expected_exceptions)
     IN /\ cb' = __aexit__(cb, out, now, failure_threshold, expected_exceptions)
        /\ last_op' = <<"__call__", exc, out>>
  /\ calls' = [calls EXCEPT ![c] = "idle"]
  /\ UNCHANGED <<bconf, now, lvars, cvars, xvars>>

GuardNext ==
  \/ \E c \in Callers : Admit(c)
  \/ \E c \in Callers, exc \in OperationOutcomes : Complete(c, exc)
  \/ \E c \in Callers, exc \in OperationOutcomes : CompleteWrapped(c, exc)
  \/ MonitorStart
  \/ MonitorWake
  \/ MonitorCancelled
  \/ Tick

GuardSpec == Init /\ [][GuardNext]_vars

\* the guarded call that ended in the latest step: its form, the outcome of
\* the operation, and what reached the caller
Ended == last_op[1] \in {"__aexit__", "__call__"}
Outcome == last_op[2]
Delivered == IF last_op[1] = "__call__" THEN last_op[3] ELSE last_op[2]

\* C11: when a guarded operation ends with an error that the breaker's
\* expected_exceptions do not match, in either form, the breaker (state,
\* failures, successes, last_failure_time, state_changes) is unchanged and
\* the caller receives that same error.
C11_NonQualifyingIgnored ==
  [][(/\ Ended'
      /\ Outcome' # NoExc
      /\ ~isinstance(Outcome', expected_exceptions))
     => (cb' = cb /\ Delivered' = Outcome')]_vars

\* a ValueError left a decorated call on a breaker that classifies only
\* connection errors and timeouts, with a failure already on record
C11_Witness ==
  /\ last_op = <<"__call__", "ValueError", "ValueError">>
  /\ expected_exceptions = {"ConnectionError", "TimeoutError"}
  /\ cb.failures = 1
  /\ cb.state = CLOSED

(***************************************************************************)
(* Further claims about the breaker's counters, checked under Spec.        *)
(***************************************************************************)
\* C12: a success recorded while CLOSED adds one to successes and leaves the
\* state, failures and last_failure_time as they were; failures never go
\* down while the breaker stays CLOSED; and a qualifying failure recorded
\* while CLOSED adds one to failures and opens the breaker exactly when the
\* count reaches failure_threshold.
C12_SuccessKeepsFailures ==
  [][/\ (cb.state = CLOSED /\ last_op' = <<"__aexit__", NoExc>>)
          => /\ cb'.successes = cb.successes + 1
             /\ cb'.state = CLOSED
             /\ cb'.failures = cb.failures
             /\ cb'.last_failure_time = cb.last_failure_time
     /\ (cb.state = CLOSED /\ cb'.state = CLOSED) => cb'.failures >= cb.failures
     /\ (/\ cb.state = CLOSED
         /\ last_op'[1] = "__aexit__"
         /\ isinstance(last_op'[2], expected_exceptions))
          => /\ cb'.failures = cb.failures + 1
             /\ cb'.state = OPEN <=> cb.failures + 1 >= failure_threshold]_vars

\* a success has just been recorded in CLOSED after a failure, and the
\* failure is still counted
C12_Witness ==
  /\ last_op = <<"__aexit__", NoExc>>
  /\ cb.state = CLOSED
  /\ cb.edge = NoEdge
  /\ cb.failures = 1
  /\ cb.successes = 1
  /\ failure_threshold = 2

\* C13 (as claimed): when a success recorded in HALF_OPEN has closed the
\* breaker, the four stats have their initial values: failures 0, successes
\* 0, last_failure_time unset, state_changes 0.
C13_StatsResetOnClose ==
  [][(cb.state = HALF_OPEN /\ last_op' = <<"__aexit__", NoExc>>)
     => /\ cb'.state = CLOSED
        /\ cb'.failures = CircuitBreakerStats.failures
        /\ cb'.successes = CircuitBreakerStats.successes
        /\ cb'.last_failure_time = CircuitBreakerStats.last_failure_time
        /\ cb'.state_changes = CircuitBreakerStats.state_changes]_vars

\* C20 (as claimed): whenever the breaker is HALF_OPEN a guarded call is in
\* flight, so that the completion of the calls in flight is what ends
\* HALF_OPEN and no state is terminal.
C20_HalfOpenHasProbe ==
  cb.state = HALF_OPEN => \E c \in Callers : calls[c] # "idle"


\* C19 (as stated): a qualifying failure of an operation run through the
\* decorator form is counted once (failures + 1, last_failure_time = now) and
\* the operation's own failure is what the caller receives.
C19_DecoratorCountsAndDelivers ==
  [][(last_op'[1] = "__call__" /\ isinstance(last_op'[2], expected_exceptions))
     => (/\ cb'.failures = cb.failures + 1
         /\ cb'.last_failure_time = now
         /\ last_op'[3] = last_op'[2])]_vars


(***************************************************************************)
(* The warmer: CacheStrategy.warm_cache_for_popular_locations and the      *)
(* detached tasks it creates, CacheStrategy._async_warm_location.  The     *)
(* call suspends once, in LocationService.get_nearby_locations; the loop   *)
(* over the reply has no suspension point.                                 *)
(***************************************************************************)
\* entries of the collaborator's list: dicts with a 'name', or without one
NearbyEntries == {<<"name", "a">>, <<"name", "b">>, <<"distance">>}
NearbyLists == UNION {[1..n -> NearbyEntries] : n \in 0..MaxNearby}

\* what get_nearby_locations can do: raise, return a list, return None
NearbyReplies ==
  {[kind |-> "raise", exc |-> e, list |-> <<>>] :
     e \in {"ConnectionError", "ValueError"}}
  \cup {[kind |-> "return", exc |-> NoExc, list |-> l] : l \in NearbyLists}
  \cup {[kind |-> "none", exc |-> NoExc, list |-> <<>>]}

\* line 118, `[:3]`
WarmLimit == 3

\* the loop over the whole reply, without the `[:3]`
Mutant_Top_uncapped(list) == list

\* line 118: nearby_locations[:3]
Top(list) == SubSeq(list, 1, Min(Len(list), WarmLimit))

\* lines 118-122: for each entry, on random.random() < 0.7 (draws[i]),
\* create_task(_async_warm_location(location['name'])); an entry without
\* 'name' raises KeyError when it is drawn
RECURSIVE warm_loop(_, _, _, _)
warm_loop(top, draws, i, created) ==
  IF i > Len(top) THEN [tasks |-> created, raised |-> NoExc]
  ELSE IF ~draws[i] THEN warm_loop(top, draws, i + 1, created)
  ELSE IF top[i][1] = "name"
    THEN warm_loop(top, draws, i + 1, Append(created, top[i][2]))
  ELSE [tasks |-> created, raised |-> "KeyError"]

\* lines 112-122: the try block, from the collaborator's reply on
warm_try(reply, draws) ==
  CASE reply.kind = "raise" -> [tasks |-> <<>>, raised |-> reply.exc]
    [] reply.kind = "none" -> [tasks |-> <<>>, raised |-> "TypeError"]
    [] OTHER -> warm_loop(Top(reply.list), draws, 1, <<>>)

\* lines 123-124, `except Exception`: what the caller of warm gets
warm_except(exc) ==
  IF exc = NoExc \/ isinstance(exc, {"Exception"}) THEN NoExc ELSE exc

\* what set_cached_weather does for a population task: returns True or
\* False, or (were its own handler absent) raises
PopulationResults == {"True", "False", "ConnectionError", "TypeError"}

\* lines 129-135: the population task's try / `except Exception`
async_warm_except(result) ==
  IF result \in {"True", "False"} \/ isinstance(result, {"Exception"})
    THEN NoExc ELSE result

WarmInit ==
  /\ window_size = 1
  /\ max_operations = 1
  /\ LimIdle
  /\ CacheIdle
  /\ ExtrasIdle
  /\ failure_threshold = CacheFailureThreshold
  /\ recovery_timeout = CacheRecoveryTimeout
  /\ expected_exceptions = CacheExpected
  /\ cb = CircuitBreaker
  /\ now = 0
  /\ calls = [c \in Callers |-> "idle"]
  /\ last_op = NoOp

\* lines 112-115: the call suspends in get_nearby_locations
WarmStart(primary) ==
  /\ warm.pc = "idle"
  /\ Len(wtasks) + WarmLimit <= MaxPending
  /\ warm' = [pc |-> "get_nearby_locations", primary |-> primary]
  /\ warm_last' = NoOp
  /\ UNCHANGED <<bvars, now, lvars, cvars, wtasks, rvars>>

\* the collaborator answers; lines 118-124 run to the end of the call
WarmReply(reply, draws) ==
  /\ warm.pc = "get_nearby_locations"
  /\ LET r == warm_try(reply, draws)
     IN /\ wtasks' = wtasks \o [i \in 1..Len(r.tasks) |->
                                  [location |-> r.tasks[i], pc |-> "scheduled"]]
        /\ warm_last' = <<"warm_cache_for_popular_locations", reply, r.tasks,
                          warm_except(r.raised)>>
  /\ warm' = [pc |-> "idle", primary |-> ""]
  /\ UNCHANGED <<bvars, now, lvars, cvars, rvars>>

\* lines 129-132: a population task runs up to its set_cached_weather
WarmTaskStart(i) ==
  /\ wtasks[i].pc = "scheduled"
  /\ wtasks' = [wtasks EXCEPT ![i].pc = "set_cached_weather"]
  /\ warm_last' = NoOp
  /\ UNCHANGED <<bvars, now, lvars, cvars, warm, rvars>>

\* lines 132-135: set_cached_weather ends, and with it the task
WarmTaskDone(i, result) ==
  /\ wtasks[i].pc = "set_cached_weather"
  /\ wtasks' = [j \in 1..(Len(wtasks) - 1) |->
                  IF j < i THEN wtasks[j] ELSE wtasks[j + 1]]
  /\ warm_last' = <<"_async_warm_location", wtasks[i].location,
                    async_warm_except(result)>>
  /\ UNCHANGED <<bvars, now, lvars, cvars, warm, rvars>>

WarmNext ==
  \/ \E primary \in Locations : WarmStart(primary)
  \/ \E reply \in NearbyReplies, draws \in [1..MaxNearby -> BOOLEAN] :
       WarmReply(reply, draws)
  \/ \E i \in DOMAIN wtasks : WarmTaskStart(i)
  \/ \E i \in DOMAIN wtasks, result \in PopulationResults :
       WarmTaskDone(i, result)

WarmSpec == WarmInit /\ [][WarmNext]_vars

\* the names s are those of a subsequence of the entries l
RECURSIVE NamesWithin(_, _)
NamesWithin(s, l) ==
  IF s = <<>> THEN TRUE
  ELSE IF l = <<>> THEN FALSE
  ELSE \/ l[1] = <<"name", s[1]>> /\ NamesWithin(Tail(s), Tail(l))
       \/ NamesWithin(s, Tail(l))

\* C14: a warm call returns normally whatever the collaborator did, has
\* created at most 3 population tasks, each for its own entry among the
\* first three of the list and none for an empty list or a failed
\* collaborator, and a population task ends without raising whatever
\* set_cached_weather did.
C14_WarmNeverRaises ==
  /\ warm_last[1] = "warm_cache_for_popular_locations"
     => /\ warm_last[4] = NoExc
        /\ Len(warm_last[3]) <= 3
        /\ NamesWithin(warm_last[3], SubSeq(warm_last[2].list, 1,
                                            Min(3, Len(warm_last[2].list))))
        /\ warm_last[2].list = <<>> => warm_last[3] = <<>>
  /\ warm_last[1] = "_async_warm_location" => warm_last[3] = NoExc

C14_Witness ==
  /\ warm_last[1] = "warm_cache_for_popular_locations"
  /\ Len(warm_last[2].list) > 3
  /\ Len(warm_last[3]) = 3
  /\ warm_last[4] = NoExc


(***************************************************************************)
(* The request path: api.routes.weather.get_weather, with the breaker      *)
(* constructed in that module (failure_threshold=3, recovery_timeout=60)   *)
(* and the application's handler for unhandled exceptions.  A request      *)
(* suspends once, in get_cached_weather.                                   *)
(***************************************************************************)
RouteFailureThreshold == 3
RouteRecoveryTimeout == 60

\* what get_cached_weather hands to its caller: a WeatherResponse, or
\* CacheMiss raised
Lookups ==
  {[kind |-> "raise", exc |-> "CacheMiss", value |-> <<>>]}
  \cup {[kind |-> "return", exc |-> NoExc, value |-> parse_raw(<<"json", c>>).value] :
          c \in {p[2] : p \in {q \in Payloads : SchemaOk(q[2])}}}

\* what the upstream providers would do if they were called
UpstreamDispositions == {"ok", "fail"}

\* what `with obj:` raises for an object whose class defines neither
\* __enter__ nor __exit__ (AttributeError up to Python 3.10, TypeError since)
WithErrors == {"AttributeError", "TypeError"}

\* the response of a request, and what the handler did on the way
Response(status, detail, body) ==
  [status |-> status, detail |-> detail, body |-> body,
   upstream_called |-> FALSE, populations |-> 0]

\* api/main.py, @app.exception_handler(Exception)
global_exception_handler(exc) == Response(500, "Internal server error", <<>>)

\* line 91: `if cached_data:` for a model object or None
RouteTruthy(value) == value # <<>>

\* line 92: gzip.decompress(cached_data) needs bytes; a model object is none
route_decompress(value) ==
  IF value[1] \in {"WeatherResponse", "dict"}
    THEN [raised |-> "TypeError", bytes |-> <<>>]
    ELSE gzip_decompress(value)

\* lines 113-120: the handler's except clauses, for an exception that is
\* not an HTTPException
route_except(exc) ==
  IF isinstance(exc, {"Exception"})
    THEN Response(503, "Weather service temporarily unavailable", <<>>)
    ELSE global_exception_handler(exc)

\* lines 89-120, from the reply of get_cached_weather on.  Line 89 is outside
\* the try; line 95 enters the breaker with a plain `with`, which raises
\* before the block (the upstream call, the two add_task calls) is run.
get_weather(lookup, with_exc) ==
  IF lookup.kind = "raise" THEN global_exception_handler(lookup.exc)
  ELSE IF RouteTruthy(lookup.value)
    THEN LET z == route_decompress(lookup.value)
             d == decode(z.bytes)
         IN IF z.raised # NoExc THEN global_exception_handler(z.raised)
            ELSE IF d.raised # NoExc THEN global_exception_handler(d.raised)
            ELSE Response(200, "", d.text)
  ELSE route_except(with_exc)

RequestInit ==
  /\ window_size = 1
  /\ max_operations = 1
  /\ LimIdle
  /\ CacheIdle
  /\ ExtrasIdle
  /\ failure_threshold = RouteFailureThreshold
  /\ recovery_timeout = RouteRecoveryTimeout
  /\ expected_exceptions = {"Exception"}
  /\ cb = CircuitBreaker
  /\ now = 0
  /\ calls = [c \in Callers |-> "idle"]
  /\ last_op = NoOp

InFlight == Cardinality({r \in Requests : req[r].pc # "idle"})

\* lines 88-89: the request suspends in get_cached_weather(f"{city}:compressed")
ReqStart(r, city, upstream) ==
  /\ req[r].pc = "idle"
  /\ Len(history) + InFlight < MaxRequests
  /\ req' = [req EXCEPT ![r] = [pc |-> "get_cached_weather", city |-> city,
                                upstream |-> upstream]]
  /\ UNCHANGED <<bvars, now, lvars, cvars, wvars, history>>

\* the lookup ends; lines 89-120 run to the response
ReqLookup(r, lookup, with_exc) ==
  /\ req[r].pc = "get_cached_weather"
  /\ LET resp == get_weather(lookup, with_exc)
     IN history' = Append(history,
                          [city |-> req[r].city,
                           lookup |-> IF lookup.kind = "raise" THEN "miss" ELSE "hit",
                           cached |-> lookup.value,
                           upstream |-> req[r].upstream,
                           status |-> resp.status,
                           detail |-> resp.detail,
                           body |-> resp.body,
                           upstream_called |-> resp.upstream_called,
                           populations |-> resp.populations,
                           breaker |-> cb.state])
  /\ req' = [req EXCEPT ![r] = [pc |-> "idle", city |-> "", upstream |-> ""]]
  /\ UNCHANGED <<bvars, now, lvars, cvars, wvars>>

RequestNext ==
  \/ \E r \in Requests, city \in Locations, upstream \in UpstreamDispositions :
       ReqStart(r, city, upstream)
  \/ \E r \in Requests, lookup \in Lookups, with_exc \in WithErrors :
       ReqLookup(r, lookup, with_exc)

RequestSpec == RequestInit /\ [][RequestNext]_vars

\* C15 (as stated): a request whose lookup missed, with the upstream
\* providers answering, is a success carrying the upstream result, has called
\* upstream and has scheduled exactly one cache population.
C15_MissFallsBack ==
  \A i \in DOMAIN history :
    (history[i].lookup = "miss" /\ history[i].upstream = "ok")
    => /\ history[i].status = 200
       /\ history[i].upstream_called
       /\ history[i].populations = 1

\* C16 (as stated): a request whose lookup hit is a success carrying the
\* cached payload, has made no upstream call and has left the breaker alone.
C16_HitServedFromCache ==
  \A i \in DOMAIN history :
    history[i].lookup = "hit"
    => /\ history[i].status = 200
       /\ history[i].body = history[i].cached
       /\ ~history[i].upstream_called
       /\ history[i].breaker = CLOSED

\* C17 (as stated): three consecutive requests whose lookups missed while
\* upstream was failing were each answered 503 and leave the breaker OPEN,
\* and the request after them is answered 503 "Circuit is OPEN" without an
\* upstream call.
C17_TripsThroughRequests ==
  \A i \in DOMAIN history :
    (/\ i + 2 \in DOMAIN history
     /\ \A j \in i..(i + 2) :
          history[j].lookup = "miss" /\ history[j].upstream = "fail")
    => /\ \A j \in i..(i + 2) : history[j].status = 503
       /\ history[i + 2].breaker = OPEN
       /\ (i + 3) \in DOMAIN history
          => /\ history[i + 3].status = 503
             /\ history[i + 3].detail = "Circuit is OPEN"
             /\ ~history[i + 3].upstream_called


(***************************************************************************)
(* Claims about the monitor task and about calls reported late.            *)
(***************************************************************************)
\* the monitor task referenced by the breaker has not finished
Unfinished(task) == task \in {"pending", "sleeping", "cancelling"}

\* C21 (as stated): a recorded failure that takes the breaker from CLOSED to
\* OPEN counts one transition and starts one monitor task; a failure recorded
\* while OPEN counts none and starts none; and a monitor task is only ever
\* created when the task referenced before has finished or never existed.
C21_OneTransitionOneMonitor ==
  [][/\ (cb.state = CLOSED /\ cb'.state = OPEN)
          => /\ cb'.state_changes = cb.state_changes + 1
             /\ ~Unfinished(cb._monitor_task)
             /\ cb'._monitor_task = "pending"
     /\ (cb.state = OPEN /\ last_op'[1] = "__aexit__")
          => /\ cb'.state_changes = cb.state_changes
             /\ cb'._monitor_task = cb._monitor_task
     /\ (cb'._monitor_task = "pending" /\ cb._monitor_task # "pending")
          => ~Unfinished(cb._monitor_task)]_vars


\* the step is one of the monitor task's own (its start or a wake-up)
MonitorStep ==
  /\ cb._monitor_task \in {"pending", "sleeping"}
  /\ last_op' = NoOp
  /\ cb' # cb

\* the breaker's state and stats
StateAndStats(self) ==
  <<self.state, self.failures, self.successes, self.last_failure_time,
    self.state_changes>>

\* C22 (as stated): while the breaker is HALF_OPEN or CLOSED no monitor task
\* is pending or running, and a step of the monitor changes neither the state
\* nor the stats of a breaker that is not OPEN.
C22_MonitorOnlyWhileOpen ==
  /\ [](cb.state \in {HALF_OPEN, CLOSED}
        => cb._monitor_task \notin {"pending", "sleeping"})
  /\ [][(MonitorStep /\ cb.state # OPEN)
        => StateAndStats(cb') = StateAndStats(cb)]_vars


\* the step records the outcome of a call that was admitted while CLOSED
LateReport ==
  /\ last_op'[1] = "__aexit__"
  /\ \E c \in Callers : calls[c] = "closed" /\ calls'[c] = "idle"

\* C27 (as stated): the outcome of a call admitted while CLOSED, recorded
\* while the breaker is HALF_OPEN, leaves it HALF_OPEN, and recorded while
\* the breaker is OPEN, leaves the stamp that times the next probe.
C27_OnlyProbeLeavesHalfOpen ==
  [][/\ (LateReport /\ cb.state = HALF_OPEN) => cb'.state = HALF_OPEN
     /\ (LateReport /\ cb.state = OPEN)
          => cb'.last_failure_time = cb.last_failure_time]_vars


(***************************************************************************)
(* Claims about concurrent and later limiter calls, checked under LimSpec. *)
(***************************************************************************)
\* the step runs the batch of task t, which is allowed having counted `count`
AllowedStep(t, count) ==
  /\ lim[t].pc = "execute"
  /\ lim'[t].pc = "idle"
  /\ lim_last'[1] = "sliding_window_cache"
  /\ lim_last'[2] = "allowed"
  /\ lim_last'[4] = count

\* C23 (as stated): when one slot remains in the window and two calls are in
\* flight on the key, the call whose batch runs first takes the slot, so the
\* batch of the other, run next, counts a full window and is rejected.
C23_OneSlotOneAdmitted ==
  [][\A t, u \in LimTasks :
       (/\ t # u
        /\ AllowedStep(t, max_operations - 1)
        /\ lim[u].pc = "execute")
       => RateLimitExceeded(pipeline(zset', lim[u].ts, window_size).count,
                            max_operations)]_vars


(***************************************************************************)
(* One client calling the limiter again and again on a healthy store, with *)
(* max_operations = 1.                                                     *)
(***************************************************************************)
RetryInit ==
  /\ window_size = RetryWindow
  /\ max_operations = 1
  /\ LimIdle
  /\ CacheIdle
  /\ ExtrasIdle
  /\ failure_threshold = 1
  /\ recovery_timeout = RecoveryTimeout
  /\ expected_exceptions = {"Exception"}
  /\ cb = CircuitBreaker
  /\ now = 0
  /\ calls = [c \in Callers |-> "idle"]
  /\ last_op = NoOp

RetryNext ==
  \/ LimStartWithin(1, MaxRetryCalls)
  \/ LimExecute(1)
  \/ LimExpire
  \/ LimTick

RetrySpec == RetryInit /\ [][RetryNext]_vars

\* the step ends the call of task t, made at time ts, as allowed or rejected
DecidedStep(t, ts) ==
  /\ lim[t].pc = "execute"
  /\ lim[t].ts = ts
  /\ lim'[t].pc = "idle"
  /\ lim_last'[1] = "sliding_window_cache"
  /\ lim_last'[2] \in {"allowed", "Rate limit exceeded"}

\* C24 (as stated): a call made at a time ts at which every call admitted
\* before has a timestamp older than ts - window_size is allowed, however
\* many calls were rejected in between.
C24_AdmissibleAgain ==
  [][\A t \in LimTasks, ts \in Times :
       (/\ DecidedStep(t, ts)
        /\ \A u \in Times : admitted[u] > 0 => u < ts - window_size)
       => lim_last'[2] = "allowed"]_vars


(***************************************************************************)
(* Claims about the TTLs written by set_cached_weather, checked under      *)
(* CacheSpec.                                                              *)
(***************************************************************************)
\* max(minimumTtl, baseTtl - age) for a payload with an observation
\* timestamp, baseTtl for one without
ClaimedTtl(data) ==
  IF Timestamp(data[2]) = "iso" THEN Max(MinimumTtl, BaseTtl - Age(data[2]))
  ELSE BaseTtl

\* the set that ended in the latest step stored its payload and no store
\* command it sent was refused
StoredPayload ==
  /\ cache_last.op = "set"
  /\ cache_last.wrote_payload
  /\ cache_last.cause \notin {"payload_write", "index_write"}

\* C25 (as stated): a set that has stored its payload has stored it to expire
\* after the claimed TTL, whatever the payload's type, never under 300 s, and
\* has stored the location-index entry to expire after twice that TTL.
C25_AdaptiveTtl ==
  StoredPayload
  => LET w == acked[cache_last.subject]
         key == IF w[2] THEN <<WEATHER_PREFIX, cache_last.subject, ":compressed">>
                ELSE <<WEATHER_PREFIX, cache_last.subject>>
         index == <<LOCATION_PREFIX, cache_last.subject>>
     IN /\ store[key] # <<>>
        /\ store[key][2] - now = ClaimedTtl(w[1])
        /\ store[key][2] - now >= MinimumTtl
        /\ cache_last.wrote_index
        /\ store[index] # <<>>
        /\ store[index][2] - now = 2 * ClaimedTtl(w[1])


(***************************************************************************)
(* Claims about the cache after a store outage, checked under CacheSpec.   *)
(***************************************************************************)
\* the step is a get or set that the cache breaker refused to admit
RejectedCall == cache_last'.cause = "rejected" /\ cache_last' # cache_last

\* C26 (as stated): the cache does not stay degraded: a get or set is turned
\* away by the breaker only while the breaker is OPEN inside its recovery
\* timeout, or while the one call probing the store is still in flight.
C26_CacheRecovers ==
  [][RejectedCall
     => \/ cb.state = OPEN /\ ~RecoveryElapsed(cb, now, recovery_timeout)
        \/ cb.state = HALF_OPEN /\ \E t \in CacheTasks : ctask[t].pc # "idle"]_vars


(***************************************************************************)
(* Claims about what warming leaves in the store, checked under CacheSpec. *)
(* A population task's call is                                             *)
(* set_cached_weather(location, {"location": location, "temp": 20.5}),     *)
(* the set of the "placeholder" dict with compress at its default, True.   *)
(***************************************************************************)
WarmPayload == <<"dict", "placeholder">>

\* what get_cached_weather(location) hands back from store st at time t when
\* it is admitted and the store answers
WouldGet(st, location, t) ==
  LET c == redis_get(st, compressed_key(location), t)
      u == redis_get(st, weather_key(location), t)
      r == IF Truthy(c) THEN read_compressed(c) ELSE read_uncompressed(u)
  IN IF ~Truthy(c) /\ ~Truthy(u) THEN get_except("CacheMiss")
     ELSE IF r.raised # NoExc THEN get_except(r.raised)
     ELSE <<"return", r.value>>

\* the step applies a store write of a population task's set
WarmWrite(t) ==
  /\ ctask[t].pc \in {"set_payload", "set_index"}
  /\ ctask[t].data = WarmPayload
  /\ ctask[t].compress
  /\ store' # store

\* C28 (as stated): a store write made by a population task leaves the
\* payload that a get of the subject returns as it was, when the subject
\* held a readable entry.
C28_WarmingKeepsEntries ==
  [][\A t \in CacheTasks :
       (WarmWrite(t) /\ WouldGet(store, ctask[t].location, now)[1] = "return")
       => WouldGet(store', ctask[t].location, now)
            = WouldGet(store, ctask[t].location, now)]_vars

====
